---------------------------- MODULE Spec2Model ----------------------------
(***************************************************************************)
(* IYS bulk consent upload: IYSConsentUploader (src/src/iys_uploader.py).  *)
(*                                                                         *)
(* One uploader instance runs process_dataframe(df) once.  The generator   *)
(* is modelled as a state machine whose steps are the stretches of code    *)
(* between its network round-trips; every event it yields is appended to   *)
(* `events`, every network call and every sleep to `effects`.              *)
(*                                                                         *)
(* Text is modelled as a sequence of one-character strings, so that        *)
(* startswith / endswith / len / upper / lower are computed as Python      *)
(* computes them.  A timestamp text "a-b-c h:m:s" is the tuple of its six  *)
(* numeric fields in the order they are written.  Progress fractions are   *)
(* counted in 1/120 (0.1 = 12, 0.5 = 60, 1.0 = 120).                       *)
(***************************************************************************)
EXTENDS Integers, Sequences, FiniteSets, TLC

VARIABLES
    df,               \* the DataFrame handed to process_dataframe
    access_token,     \* self.access_token: <<>> is None, else the token text
    pc,               \* where process_dataframe stands
    events,           \* the dicts yielded so far, in order
    effects,          \* network calls and sleeps performed so far, in order
    df_deduplicated,  \* local of process_dataframe (line 123)
    consent_list,     \* local of process_dataframe (line 129)
    request_id,       \* local of process_dataframe (line 153); "" before
    i,                \* the polling loop variable (line 157)
    status_result,    \* the status list the poll ended on (lines 162, 177); a
                      \*   response that leaves the poll going is not read again
    success_count,    \* line 171
    failure_count,    \* line 172
    outcome,          \* how the run ended: running, auth_failed, no_records,
                      \*   error, complete, timeout
    every_enqueue,    \* history: every status response so far was a list
                      \*   holding an item whose status is ENQUEUE
    last_answer,      \* history: what the last status request got: none,
                      \*   unobserved (where the answers are not recorded),
                      \*   http_error, connection_error, object, empty_list,
                      \*   processing, final
    phone_arg,        \* the argument of a format_phone_number call
    phone_out         \* what format_phone_number returned for it

vars == <<df, access_token, pc, events, effects, df_deduplicated,
          consent_list, request_id, i, status_result, success_count,
          failure_count, outcome, every_enqueue, last_answer,
          phone_arg, phone_out>>

---------------------------------------------------------------------------
(* Bounds of the model *)

MaxRows == 2        \* rows of a small input table
MaxItems == 2       \* items of a status response
LargeRows == 51     \* rows of the one large input table

(* Program constants *)

MaxAttempts == 12   \* range(12)

---------------------------------------------------------------------------
(* Text *)

Uppers == <<"A","B","C","D","E","F","G","H","I","J","K","L","M",
            "N","O","P","Q","R","S","T","U","V","W","X","Y","Z">>
Lowers == <<"a","b","c","d","e","f","g","h","i","j","k","l","m",
            "n","o","p","q","r","s","t","u","v","w","x","y","z">>
Digits == <<"0","1","2","3","4","5","6","7","8","9">>

\* str.upper() and str.lower(), character by character.
ToUpper == [c \in {Lowers[k] : k \in 1..Len(Lowers)} |->
               Uppers[CHOOSE k \in 1..Len(Lowers) : Lowers[k] = c]]
ToLower == [c \in {Uppers[k] : k \in 1..Len(Uppers)} |->
               Lowers[CHOOSE k \in 1..Len(Uppers) : Uppers[k] = c]]

UpperChar(c) == IF c \in DOMAIN ToUpper THEN ToUpper[c] ELSE c

LowerChar(c) == IF c \in DOMAIN ToLower THEN ToLower[c] ELSE c

upper(s) == [k \in 1..Len(s) |-> UpperChar(s[k])]
lower(s) == [k \in 1..Len(s) |-> LowerChar(s[k])]

startswith(s, p) == Len(s) >= Len(p) /\ SubSeq(s, 1, Len(p)) = p
endswith(s, p) == Len(s) >= Len(p) /\ SubSeq(s, Len(s) - Len(p) + 1, Len(s)) = p

RECURSIVE lstrip(_)
lstrip(s) == IF s # <<>> /\ Head(s) = " " THEN lstrip(Tail(s)) ELSE s

RECURSIVE rstrip(_)
rstrip(s) ==
    IF s # <<>> /\ s[Len(s)] = " " THEN rstrip(SubSeq(s, 1, Len(s) - 1)) ELSE s

strip(s) == rstrip(lstrip(s))

---------------------------------------------------------------------------
(* format_phone_number *)

format_phone_number(phone) ==
    LET stripped == strip(phone)
        phone_str == IF endswith(stripped, <<".", "0">>)
                     THEN SubSeq(stripped, 1, Len(stripped) - 2)
                     ELSE stripped
    IN  IF ~startswith(phone_str, <<"+">>)
        THEN IF startswith(phone_str, <<"9", "0">>)
             THEN <<"+">> \o phone_str
             ELSE IF Len(phone_str) = 10
                  THEN <<"+", "9", "0">> \o phone_str
                  ELSE <<"+">> \o phone_str
        ELSE phone_str

---------------------------------------------------------------------------
(* Consent timestamps *)

\* pd.to_datetime(text, format='%d-%m-%Y %H:%M:%S') parses: the fields are
\* read as day, month, year, hour, minute, second.
to_datetime_ok(t) ==
    /\ t[1] \in 1..31
    /\ t[2] \in 1..12
    /\ t[3] \in 1000..9999
    /\ t[4] \in 0..23
    /\ t[5] \in 0..59
    /\ t[6] \in 0..59

\* .strftime('%Y-%m-%d %H:%M:%S') of the parsed value: year, month, day first.
consentDate(t) == <<t[3], t[2], t[1], t[4], t[5], t[6]>>

---------------------------------------------------------------------------
(* Input tables *)

P1 == <<"5","4","5","9","4","1","9","8","4","5">>
P1plus == <<"+","9","0">> \o P1
P2 == <<"5","4","6","7","3","3","8","8","9","2">>

MESAJ == <<"M","E","S","A","J">>
ARAMA == <<"A","R","A","M","A">>
HS_WEB == <<"H","S","_","W","E","B">>

\* "20-06-2025 14:00:00", "20-06-2025 15:00:00" and, in the layout the format
\* string does not accept, "2025-06-20 14:00:00"
Ts1400 == <<20, 6, 2025, 14, 0, 0>>
Ts1500 == <<20, 6, 2025, 15, 0, 0>>
TsYmd == <<2025, 6, 20, 14, 0, 0>>

Row(alici, tur, onay, tarih) ==
    [ALICI |-> alici, IZIN_TURU |-> tur, ONAY |-> onay,
     IZIN_KAYNAGI |-> HS_WEB, IZIN_TARIHI |-> tarih]

\* An empty IZIN TURU cell (NaN in the DataFrame) is the empty text.
RawRows ==
    { Row(P1, MESAJ, 1, Ts1400),
      Row(P1, MESAJ, 0, Ts1500),
      Row(P1plus, lower(MESAJ), 1, Ts1400),
      Row(P2, ARAMA, 1, Ts1400),
      Row(P2, <<>>, 1, Ts1400),
      Row(P2, ARAMA, 0, TsYmd) }

SmallTables == UNION { [1..n -> RawRows] : n \in 0..MaxRows }

LargePhone(k) ==
    <<"5","0","0","0","0","0","0","0">>
        \o <<Digits[((k \div 10) % 10) + 1], Digits[(k % 10) + 1]>>

LargeTable == [k \in 1..LargeRows |-> Row(LargePhone(k), MESAJ, 1, Ts1400)]

---------------------------------------------------------------------------
(* Deduplication and normalization (process_dataframe, lines 121-146) *)

DedupKey(row) == <<row.ALICI, row.IZIN_TURU>>

\* As drop_duplicates, had keep='first' been given.
drop_duplicates_first(frame) ==
    LET keep == { k \in 1..Len(frame) :
                    \A j \in 1..(k - 1) : DedupKey(frame[j]) # DedupKey(frame[k]) }
        F[k \in 0..Len(frame)] ==
            IF k = 0 THEN <<>>
            ELSE IF k \in keep THEN Append(F[k - 1], frame[k]) ELSE F[k - 1]
    IN  F[Len(frame)]

\* df.drop_duplicates(subset=['ALICI', 'IZIN TURU'], keep='last'): a row stays
\* iff no later row has the same raw ALICI and IZIN TURU cells.
drop_duplicates(frame) ==
    LET keep == { k \in 1..Len(frame) :
                    \A j \in (k + 1)..Len(frame) :
                        DedupKey(frame[j]) # DedupKey(frame[k]) }
        F[k \in 0..Len(frame)] ==
            IF k = 0 THEN <<>>
            ELSE IF k \in keep THEN Append(F[k - 1], frame[k]) ELSE F[k - 1]
    IN  F[Len(frame)]

\* The dict appended at lines 139-146.
Consent(row) ==
    [type |-> upper(row.IZIN_TURU),
     status |-> IF row.ONAY = 1 THEN "ONAY" ELSE "RET",
     source |-> row.IZIN_KAYNAGI,
     recipient |-> format_phone_number(row.ALICI),
     recipientType |-> "BIREYSEL",
     consentDate |-> consentDate(row.IZIN_TARIHI)]

\* Rows the loop does not skip (line 136).
Submittable(row) == row.IZIN_TURU # <<>>

\* The loop raises at the first row it does not skip whose timestamp
\* pd.to_datetime rejects.
BuildRaises(frame) ==
    \E k \in 1..Len(frame) :
        Submittable(frame[k]) /\ ~to_datetime_ok(frame[k].IZIN_TARIHI)

BuildConsentList(frame) ==
    LET F[k \in 0..Len(frame)] ==
            IF k = 0 THEN <<>>
            ELSE IF Submittable(frame[k])
                 THEN Append(F[k - 1], Consent(frame[k]))
                 ELSE F[k - 1]
    IN  F[Len(frame)]

---------------------------------------------------------------------------
(* The registry: what the three endpoints may answer *)

TOKEN == <<"t","o","k","e","n">>
None == <<>>

\* requests.post(token_url): a 2xx JSON object with an access_token, a 2xx
\* JSON object without one, a non-2xx answer, or no answer at all.
TokenOutcomes == {"ok", "no_access_token", "http_error", "no_response"}

\* The request id the registry gives a submission.
RequestIds == {"REQ-1"}

\* requests.post(consent_url): {requestId}, a JSON object without requestId,
\* a non-2xx answer (raise_for_status), or no answer (ConnectionError).
SubmitOutcomes ==
    { [kind |-> "ok", requestId |-> r] : r \in RequestIds }
        \cup { [kind |-> "no_request_id"],
               [kind |-> "http_error", status_code |-> 400],
               [kind |-> "connection_error"] }

ENQUEUE == <<"E","n","q","u","e","u","e">>
PENDING == <<"P","E","N","D","I","N","G">>
SUCCESS == <<"S","U","C","C","E","S","S">>
COMPLETED == <<"C","o","m","p","l","e","t","e","d">>
FAILED == <<"F","A","I","L","E","D">>

StatusVals == {ENQUEUE, PENDING, SUCCESS, COMPLETED, FAILED}

\* The registry numbers the items of a status list by position, from 0.
StatusLists ==
    UNION { { [k \in 1..n |-> [index |-> k - 1, status |-> ss[k]]] :
                ss \in [1..n -> StatusVals] } : n \in 0..MaxItems }

\* requests.get(status_url): a JSON array of items, a JSON object, a non-2xx
\* answer, or no answer.
StatusOutcomes ==
    { [kind |-> "json", is_list |-> TRUE, items |-> l] : l \in StatusLists }
        \cup { [kind |-> "json", is_list |-> FALSE, items |-> <<>>],
               [kind |-> "http_error", status_code |-> 500],
               [kind |-> "connection_error"] }

---------------------------------------------------------------------------
(* get_token (lines 33-59) *)

\* As get_token, had it returned True whenever the request raised nothing.
get_token_unchecked(answer, token) ==
    CASE answer = "ok" -> [result |-> TRUE, access_token |-> TOKEN]
      [] answer = "no_access_token" -> [result |-> TRUE, access_token |-> None]
      [] OTHER -> [result |-> FALSE, access_token |-> token]

\* The value returned and the value self.access_token holds afterwards.
get_token(answer, token) ==
    CASE answer = "ok" -> [result |-> TRUE, access_token |-> TOKEN]
      [] answer = "no_access_token" -> [result |-> FALSE, access_token |-> None]
      [] OTHER -> [result |-> FALSE, access_token |-> token]

---------------------------------------------------------------------------
(* Events (the dicts process_dataframe yields) *)

Event(status, message, progress) ==
    [status |-> status, message |-> message, progress |-> progress]

\* The two except clauses (lines 201-207).
HTTPErrorEvent(code) ==
    Event("error", [text |-> "API Hatasi", status_code |-> code], 120)

ExceptionEvent(what) ==
    Event("error", [text |-> "Beklenmedik bir hata olustu", error |-> what], 120)

TimeoutEvent ==
    Event("warning", [text |-> "Sonuc beklenenden uzun surdu"], 120)

---------------------------------------------------------------------------
(* Polling and reconciliation (lines 157-199) *)

item_status(item) ==
    lower(IF "status" \in DOMAIN item THEN item.status ELSE <<>>)

original_index(item) ==
    IF "index" \in DOMAIN item THEN item.index ELSE -1

InProgressStatuses ==
    { <<"e","n","q","u","e","u","e">>,
      <<"p","r","o","c","e","s","s","i","n","g">> }

\* As is_processing, had the status been compared without .lower().
is_processing_cased(items) ==
    \E k \in 1..Len(items) :
        (IF "status" \in DOMAIN items[k] THEN items[k].status ELSE <<>>)
            \in InProgressStatuses

is_processing(items) ==
    \E k \in 1..Len(items) : item_status(items[k]) \in InProgressStatuses

\* Line 164-168: the response ends the poll.
poll_done(answer) ==
    answer.is_list /\ answer.items # <<>> /\ ~is_processing(answer.items)

SucceededStatuses ==
    { <<"s","u","c","c","e","s","s">>,
      <<"c","o","m","p","l","e","t","e","d">> }

\* As is_success, had "completed" been left out of the list.
is_success_only(item) == item_status(item) = <<"s","u","c","c","e","s","s">>

is_success(item) == item_status(item) \in SucceededStatuses

\* Line 175: the ALICI column of the deduplicated frame.
recipient_list(frame) == [k \in 1..Len(frame) |-> frame[k].ALICI]

UnknownRecipient == <<"Bilinmeyen Alici">>

\* Lines 181-183.
recipient_of(item, recipients) ==
    IF 0 <= original_index(item) /\ original_index(item) < Len(recipients)
    THEN format_phone_number(recipients[original_index(item) + 1])
    ELSE UnknownRecipient

error_message(item) ==
    IF "error" \in DOMAIN item /\ "message" \in DOMAIN item.error
    THEN item.error.message
    ELSE "Bilinmeyen hata."

\* Line 191: the event of a failed item carries no progress.
FailureEvent(item, recipients) ==
    [status |-> "error",
     message |-> [text |-> "basarisiz",
                  recipient |-> recipient_of(item, recipients),
                  index |-> original_index(item),
                  error |-> error_message(item)]]

\* The loop of lines 177-191: the two counters and the events it yields.
Reconcile(items, recipients) ==
    LET F[k \in 0..Len(items)] ==
            IF k = 0
            THEN [success_count |-> 0, failure_count |-> 0, yielded |-> <<>>]
            ELSE IF is_success(items[k])
                 THEN [F[k - 1] EXCEPT !.success_count = @ + 1]
                 ELSE [F[k - 1] EXCEPT
                         !.failure_count = @ + 1,
                         !.yielded = Append(@, FailureEvent(items[k], recipients))]
    IN  F[Len(items)]

SummaryEvent(succeeded, failed) ==
    Event(IF failed = 0 THEN "success" ELSE "warning",
          [text |-> "Islem tamamlandi", success_count |-> succeeded,
           failure_count |-> failed], 120)

\* As CompletionEvents, had the summary not been yielded.
CompletionEvents_unsummed(tally) ==
    (<<Event("info", [text |-> "sonuclar isleniyor"], 108)>> \o tally.yielded)
        \o <<Event("complete", [text |-> "Tum islemler bitti"], 120)>>

\* Lines 169-196: what is yielded once the poll has ended.
CompletionEvents(tally) ==
    (<<Event("info", [text |-> "sonuclar isleniyor"], 108)>> \o tally.yielded)
        \o <<SummaryEvent(tally.success_count, tally.failure_count),
              Event("complete", [text |-> "Tum islemler bitti"], 120)>>

\* As PollEffects, had the status been fetched without waiting first.
PollEffects_unslept(id) == <<[op |-> "status", request_id |-> id]>>

\* Lines 158 and 162: time.sleep(10), then check_consent_status(request_id).
PollEffects(id) ==
    <<[op |-> "sleep", seconds |-> 10], [op |-> "status", request_id |-> id]>>

\* What a status request got, as lines 162-168 tell the answers apart.
AnswerShape(answer) ==
    CASE answer.kind # "json" -> answer.kind
      [] ~answer.is_list -> "object"
      [] answer.items = <<>> -> "empty_list"
      [] is_processing(answer.items) -> "processing"
      [] OTHER -> "final"

---------------------------------------------------------------------------
(* process_dataframe (lines 112-207) *)

\* A fresh uploader (__init__, lines 13-31) about to process one of `tables`.
InitWith(tables, answer) ==
    /\ df \in tables
    /\ access_token = None
    /\ pc = "start"
    /\ events = <<>>
    /\ effects = <<>>
    /\ df_deduplicated = <<>>
    /\ consent_list = <<>>
    /\ request_id = ""
    /\ i = 0
    /\ status_result = <<>>
    /\ success_count = 0
    /\ failure_count = 0
    /\ outcome = "running"
    /\ every_enqueue = TRUE
    /\ last_answer = answer
    /\ phone_arg = <<>>
    /\ phone_out = <<>>

\* The shape of the status answers is recorded only in the specification that
\* observes it.
InitOn(tables) == InitWith(tables, "unobserved")

Init == InitOn(SmallTables)

\* The same uploader given a table of more rows than one request may carry.
InitLarge == InitOn({LargeTable})

\* Lines 115-119.
Authenticate ==
    /\ pc = "start"
    /\ \E answer \in TokenOutcomes :
         LET got == get_token(answer, access_token) IN
         /\ effects' = Append(effects, [op |-> "token"])
         /\ access_token' = got.access_token
         /\ IF got.result
            THEN /\ events' = Append(events,
                        Event("info", [text |-> "Izin verileri hazirlaniyor"], 12))
                 /\ pc' = "prepare"
                 /\ outcome' = outcome
            ELSE /\ events' = Append(events,
                        Event("error", [text |-> "IYS kimlik dogrulamasi basarisiz"], 0))
                 /\ pc' = "done"
                 /\ outcome' = "auth_failed"
    /\ UNCHANGED <<df, df_deduplicated, consent_list, request_id, i,
                   status_result, success_count, failure_count, every_enqueue,
                   last_answer, phone_arg, phone_out>>

\* Lines 121-152.
Prepare ==
    /\ pc = "prepare"
    /\ LET deduplicated == drop_duplicates(df)
           removed_count == Len(df) - Len(deduplicated)
           warned == IF Len(df) > Len(deduplicated)
                     THEN Append(events,
                            Event("warning",
                                  [text |-> "tekrar eden kayit kaldirildi",
                                   removed_count |-> removed_count], 18))
                     ELSE events
           built == BuildConsentList(deduplicated)
       IN
       /\ df_deduplicated' = deduplicated
       /\ IF BuildRaises(deduplicated)
          THEN /\ consent_list' = consent_list
               /\ events' = Append(warned, ExceptionEvent("to_datetime"))
               /\ pc' = "done"
               /\ outcome' = "error"
          ELSE /\ consent_list' = built
               /\ IF built = <<>>
                  THEN /\ events' = Append(warned,
                              Event("warning",
                                    [text |-> "Yuklenecek gecerli bir kayit bulunamadi"],
                                    120))
                       /\ pc' = "done"
                       /\ outcome' = "no_records"
                  ELSE /\ events' = Append(warned,
                              Event("info",
                                    [text |-> "izin istegi gonderiliyor",
                                     count |-> Len(built)], 36))
                       /\ pc' = "submit"
                       /\ outcome' = outcome
    /\ UNCHANGED <<df, access_token, effects, request_id, i, status_result,
                   success_count, failure_count, every_enqueue, last_answer,
                   phone_arg, phone_out>>

\* As Submit, had a refused request been sent again.
Submit_retrying ==
    /\ pc = "submit"
    /\ \E answer \in SubmitOutcomes :
         /\ effects' = Append(effects, [op |-> "submit", payload |-> consent_list])
         /\ CASE answer.kind = "ok" ->
                   /\ request_id' = answer.requestId
                   /\ events' = Append(events,
                          Event("success",
                                [text |-> "Istek basariyla gonderildi",
                                 request_id |-> answer.requestId], 60))
                   /\ pc' = "poll"
                   /\ outcome' = outcome
              [] answer.kind = "http_error" ->
                   /\ request_id' = request_id
                   /\ events' = events
                   /\ pc' = "submit"
                   /\ outcome' = outcome
              [] OTHER ->
                   /\ request_id' = request_id
                   /\ events' = Append(events, ExceptionEvent(answer.kind))
                   /\ pc' = "done"
                   /\ outcome' = "error"
    /\ UNCHANGED <<df, access_token, df_deduplicated, consent_list, i,
                   status_result, success_count, failure_count, every_enqueue,
                   last_answer, phone_arg, phone_out>>

\* Lines 153-154, with add_consents (lines 79-97).  The token is set here:
\* get_token returned True.
Submit ==
    /\ pc = "submit"
    /\ \E answer \in SubmitOutcomes :
         /\ effects' = Append(effects, [op |-> "submit", payload |-> consent_list])
         /\ CASE answer.kind = "ok" ->
                   /\ request_id' = answer.requestId
                   /\ events' = Append(events,
                          Event("success",
                                [text |-> "Istek basariyla gonderildi",
                                 request_id |-> answer.requestId], 60))
                   /\ pc' = "poll"
                   /\ outcome' = outcome
              [] answer.kind = "http_error" ->
                   /\ request_id' = request_id
                   /\ events' = Append(events, HTTPErrorEvent(answer.status_code))
                   /\ pc' = "done"
                   /\ outcome' = "error"
              [] OTHER ->
                   /\ request_id' = request_id
                   /\ events' = Append(events, ExceptionEvent(answer.kind))
                   /\ pc' = "done"
                   /\ outcome' = "error"
    /\ UNCHANGED <<df, access_token, df_deduplicated, consent_list, i,
                   status_result, success_count, failure_count, every_enqueue,
                   last_answer, phone_arg, phone_out>>

\* One pass of the loop of lines 157-197 and, after the last pass, line 199.
Poll ==
    /\ pc = "poll"
    /\ i < MaxAttempts
    /\ \E answer \in StatusOutcomes :
         LET checking == Append(events,
                 Event("info",
                       [text |-> "Sonuclar kontrol ediliyor",
                        attempt |-> i + 1, of |-> MaxAttempts],
                       60 + (i + 1) * (60 \div MaxAttempts)))
             tally == Reconcile(answer.items, recipient_list(df_deduplicated))
         IN
         /\ effects' = effects \o PollEffects(request_id)
         /\ last_answer' = IF last_answer = "unobserved"
                          THEN last_answer
                          ELSE AnswerShape(answer)
         /\ CASE answer.kind = "http_error" ->
                   /\ events' = Append(checking, HTTPErrorEvent(answer.status_code))
                   /\ pc' = "done"
                   /\ outcome' = "error"
                   /\ UNCHANGED <<i, status_result, success_count,
                                  failure_count, every_enqueue>>
              [] answer.kind = "connection_error" ->
                   /\ events' = Append(checking, ExceptionEvent(answer.kind))
                   /\ pc' = "done"
                   /\ outcome' = "error"
                   /\ UNCHANGED <<i, status_result, success_count,
                                  failure_count, every_enqueue>>
              [] OTHER ->
                   /\ every_enqueue' =
                         (every_enqueue /\ answer.is_list
                            /\ \E k \in 1..Len(answer.items) :
                                 item_status(answer.items[k]) = lower(ENQUEUE))
                   /\ IF poll_done(answer)
                      THEN /\ status_result' = answer.items
                           /\ success_count' = tally.success_count
                           /\ failure_count' = tally.failure_count
                           /\ events' = checking \o CompletionEvents(tally)
                           /\ pc' = "done"
                           /\ outcome' = "complete"
                           /\ i' = i
                      ELSE /\ UNCHANGED <<status_result, success_count,
                                          failure_count>>
                           /\ i' = i + 1
                           /\ IF i + 1 = MaxAttempts
                              THEN /\ events' = Append(checking, TimeoutEvent)
                                   /\ pc' = "done"
                                   /\ outcome' = "timeout"
                              ELSE /\ events' = checking
                                   /\ pc' = pc
                                   /\ outcome' = outcome
    /\ UNCHANGED <<df, access_token, df_deduplicated, consent_list, request_id,
                   phone_arg, phone_out>>

Next == Authenticate \/ Prepare \/ Submit \/ Poll

Spec == Init /\ [][Next]_vars

SpecLarge == InitLarge /\ [][Next]_vars

\* The uploader given one row or two, the shape of each status answer observed.
InitObserved ==
    InitWith({<<Row(P1, MESAJ, 1, Ts1400)>>,
              <<Row(P1, MESAJ, 1, Ts1400), Row(P2, ARAMA, 1, Ts1400)>>}, "none")

SpecObserved == InitObserved /\ [][Next]_vars

---------------------------------------------------------------------------
(* format_phone_number called on its own *)

MaxSuffix == 2

RECURSIVE Repeat(_, _)
Repeat(s, n) == IF n = 0 THEN <<>> ELSE s \o Repeat(s, n - 1)

\* str(phone) of the cells the function may be given: a ten-digit number or
\* a shorter one, with or without a country prefix and a separator after it,
\* with the '.0' a float cell brings, with blanks around.
PhoneInputs ==
    { (((lead \o prefix) \o sep) \o core) \o (Repeat(<<".", "0">>, n) \o trail) :
        lead \in {<<>>, <<" ">>},
        prefix \in {<<>>, <<"+">>, <<"9", "0">>, <<"+", "9", "0">>},
        sep \in {<<>>, <<" ">>},
        core \in {P1, <<"5", "4", "5">>},
        n \in 0..MaxSuffix,
        trail \in {<<>>, <<" ">>} }

InitPhone ==
    /\ phone_arg \in PhoneInputs
    /\ phone_out = <<>>
    /\ pc = "format"
    /\ df = <<>>
    /\ access_token = None
    /\ events = <<>>
    /\ effects = <<>>
    /\ df_deduplicated = <<>>
    /\ consent_list = <<>>
    /\ request_id = ""
    /\ i = 0
    /\ status_result = <<>>
    /\ success_count = 0
    /\ failure_count = 0
    /\ outcome = "running"
    /\ every_enqueue = TRUE
    /\ last_answer = "unobserved"

\* format_phone_number(phone), lines 61-77.
Format ==
    /\ pc = "format"
    /\ phone_out' = format_phone_number(phone_arg)
    /\ pc' = "formatted"
    /\ UNCHANGED <<df, access_token, events, effects, df_deduplicated,
                   consent_list, request_id, i, status_result, success_count,
                   failure_count, outcome, every_enqueue, last_answer,
                   phone_arg>>

\* format_phone_number applied to its own result.
Reformat ==
    /\ pc = "formatted"
    /\ phone_out' = format_phone_number(phone_out)
    /\ pc' = "reformatted"
    /\ UNCHANGED <<df, access_token, events, effects, df_deduplicated,
                   consent_list, request_id, i, status_result, success_count,
                   failure_count, outcome, every_enqueue, last_answer,
                   phone_arg>>

NextPhone == Format \/ Reformat

SpecPhone == InitPhone /\ [][NextPhone]_vars

---------------------------------------------------------------------------
(* The uploader's methods called one after another on one instance *)

MaxPriorEffects == 2

\* One table of one valid row.
InitSession == InitOn({<<Row(P1, MESAJ, 1, Ts1400)>>})

\* add_consents(consent_data) called directly, lines 79-97; what it returns
\* or raises goes to the caller.
add_consents ==
    /\ pc = "start"
    /\ Len(effects) < MaxPriorEffects
    /\ \E token_answer \in TokenOutcomes, answer \in SubmitOutcomes :
         LET got == get_token(token_answer, access_token)
             post == [op |-> "submit", payload |-> <<>>]
         IN  IF access_token = None
             THEN /\ access_token' = got.access_token
                  /\ effects' = IF got.result
                                THEN effects \o <<[op |-> "token"], post>>
                                ELSE Append(effects, [op |-> "token"])
             ELSE /\ access_token' = access_token
                  /\ effects' = Append(effects, post)
    /\ UNCHANGED <<df, pc, events, df_deduplicated, consent_list, request_id,
                   i, status_result, success_count, failure_count, outcome,
                   every_enqueue, last_answer, phone_arg, phone_out>>

\* check_consent_status(request_id) called directly, lines 99-110.
check_consent_status ==
    /\ pc = "start"
    /\ Len(effects) < MaxPriorEffects
    /\ \E token_answer \in TokenOutcomes, id \in RequestIds :
         LET got == get_token(token_answer, access_token)
             fetch == [op |-> "status", request_id |-> id]
         IN  IF access_token = None
             THEN /\ access_token' = got.access_token
                  /\ effects' = IF got.result
                                THEN effects \o <<[op |-> "token"], fetch>>
                                ELSE Append(effects, [op |-> "token"])
             ELSE /\ access_token' = access_token
                  /\ effects' = Append(effects, fetch)
    /\ UNCHANGED <<df, pc, events, df_deduplicated, consent_list, request_id,
                   i, status_result, success_count, failure_count, outcome,
                   every_enqueue, last_answer, phone_arg, phone_out>>

\* process_dataframe after any direct calls.
NextSession == Next \/ add_consents \/ check_consent_status

SpecSession == InitSession /\ [][NextSession]_vars

---------------------------------------------------------------------------
(* Observations on a run *)

SubmitCalls == { k \in 1..Len(effects) : effects[k].op = "submit" }
StatusCalls == { k \in 1..Len(effects) : effects[k].op = "status" }
TokenCalls == { k \in 1..Len(effects) : effects[k].op = "token" }

\* The payloads handed to add_consents, in submission order, end to end.
SubmittedRecords ==
    LET F[k \in 0..Len(effects)] ==
            IF k = 0 THEN <<>>
            ELSE IF effects[k].op = "submit"
                 THEN F[k - 1] \o effects[k].payload
                 ELSE F[k - 1]
    IN  F[Len(effects)]

TallyEvents == { k \in 1..Len(events) : events[k].message.text = "Islem tamamlandi" }
CompleteEvents == { k \in 1..Len(events) : events[k].status = "complete" }
FailureEvents == { k \in 1..Len(events) : events[k].message.text = "basarisiz" }

LastEvent == events[Len(events)]

---------------------------------------------------------------------------
(* C1..C10 *)

\* C1: every payload handed to add_consents holds at most 50 records, and the
\* payloads, end to end in submission order, are the normalized, deduplicated
\* record list.
C1_PayloadsOfAtMost50 ==
    /\ \A k \in SubmitCalls : Len(effects[k].payload) <= 50
    /\ SubmitCalls # {} => SubmittedRecords = consent_list

\* The in-progress statuses as the design document enumerates them.
StatedInProgress ==
    { <<"P","E","N","D","I","N","G">>,
      <<"E","N","Q","U","E","U","E">>,
      <<"I","N","_","P","R","O","G","R","E","S","S">> }

\* C2: no tally and no 'complete' event is produced from a status response in
\* which some item has a status in {PENDING, ENQUEUE, IN_PROGRESS}, compared
\* case-insensitively.
C2_NoTallyWhileInProgress ==
    (TallyEvents # {} \/ CompleteEvents # {}) =>
        \A k \in 1..Len(status_result) :
            upper(status_result[k].status) \notin StatedInProgress

\* C3: the recipient a failure event names for an item whose index lies inside
\* the submitted batch is the recipient of the record at that index of the
\* submitted payload.
C3_FailureNamesSubmittedRecipient ==
    \A k \in FailureEvents :
        LET m == events[k].message IN
        (0 <= m.index /\ m.index < Len(consent_list)) =>
            m.recipient = consent_list[m.index + 1].recipient

\* C4: the record list built from a table is no longer than the table, and no
\* two records of a submitted payload have the same (recipient, type) pair.
C4_OneSurvivorPerIdentityKey ==
    /\ Len(consent_list) <= Len(df)
    /\ \A k \in SubmitCalls :
         LET payload == effects[k].payload IN
         \A a, b \in 1..Len(payload) :
            a # b => <<payload[a].recipient, payload[a].type>>
                        # <<payload[b].recipient, payload[b].type>>

\* The pairs of the rows that are not skipped, the last row of a pair, and
\* the place of a pair among the pairs ordered by their last rows.
SubmittableKeys ==
    { DedupKey(df[k]) : k \in { j \in 1..Len(df) : Submittable(df[j]) } }

LastRowOf(key) ==
    LET rows == { m \in 1..Len(df) : DedupKey(df[m]) = key }
    IN  CHOOSE m \in rows : \A j \in rows : j <= m

SlotOf(key) ==
    1 + Cardinality({ q \in SubmittableKeys : LastRowOf(q) < LastRowOf(key) })

C6_TimeoutIsErrorNamingRequest ==
    outcome = "timeout" =>
        /\ LastEvent.status = "error"
        /\ "request_id" \in DOMAIN LastEvent.message
        /\ LastEvent.message.request_id = request_id

\* C7: if every status response of the batch holds an item with status ENQUEUE,
\* the run fetches the status exactly 12 times, then yields the timeout event,
\* and yields no tally and no 'complete' event.
C7_AlwaysEnqueueTimesOut ==
    /\ (request_id # "" /\ every_enqueue) =>
          (TallyEvents = {} /\ CompleteEvents = {})
    /\ (pc = "done" /\ request_id # "" /\ every_enqueue /\ outcome # "error") =>
          /\ Cardinality(StatusCalls) = 12
          /\ LastEvent.message.text = "Sonuc beklenenden uzun surdu"
          /\ \A k \in 1..(Len(events) - 1) :
                events[k].message.text # "Sonuc beklenenden uzun surdu"

\* A run that ended after twelve responses, each holding an ENQUEUE item.
C7_Witness ==
    pc = "done" /\ request_id # "" /\ every_enqueue /\ outcome = "timeout"

\* An item whose status reads SUCCESS or COMPLETED, whatever the case.
StatedSucceeded(item) ==
    upper(item.status) \in { <<"S","U","C","C","E","S","S">>,
                             <<"C","O","M","P","L","E","T","E","D">> }

\* C8: when a tally is emitted, success_count + failure_count is the length of
\* the final status list; the succeeded items are exactly those whose status
\* is SUCCESS or COMPLETED in any case; each other item has one failure event.
C8_TallyCountsEveryItem ==
    \A t \in TallyEvents :
        LET m == events[t].message
            good == { k \in 1..Len(status_result) : StatedSucceeded(status_result[k]) }
            bad == (1..Len(status_result)) \ good
        IN  /\ m.success_count + m.failure_count = Len(status_result)
            /\ m.success_count = Cardinality(good)
            /\ m.failure_count = Cardinality(bad)
            /\ success_count = m.success_count
            /\ failure_count = m.failure_count
            /\ Cardinality(FailureEvents) = Cardinality(bad)
            /\ \A k \in bad :
                 Cardinality({ e \in FailureEvents :
                                 events[e].message.index = status_result[k].index }) = 1

\* A tally over a list with a succeeded and a failed item.
C8_Witness ==
    /\ TallyEvents # {}
    /\ success_count >= 1
    /\ failure_count >= 1

\* C9: a run whose table holds a row with an unparseable timestamp makes no
\* token exchange, no submit request and no status request, and ends with an
\* error event.
C9_BadTimestampNoNetwork ==
    (\E k \in 1..Len(df) : ~to_datetime_ok(df[k].IZIN_TARIHI)) =>
        /\ TokenCalls = {} /\ SubmitCalls = {} /\ StatusCalls = {}
        /\ pc = "done" => LastEvent.status = "error"

\* C10: a token exchange that fails leaves the run with exactly one event, of
\* kind error, and with no network call but the token exchange itself.
C10_AuthFailureIsFatal ==
    (pc # "start" /\ access_token = None) =>
        /\ pc = "done"
        /\ outcome = "auth_failed"
        /\ Len(events) = 1
        /\ events[1].status = "error"
        /\ effects = <<[op |-> "token"]>>

\* A run that ended on a failed token exchange.
C10_Witness ==
    pc = "done" /\ outcome = "auth_failed" /\ access_token = None

---------------------------------------------------------------------------
(* C11..C20 *)

SubmittedEvents ==
    { k \in 1..Len(events) : events[k].message.text = "Istek basariyla gonderildi" }

\* C11: the batch of a run is submitted at most once, whatever follows the
\* request (an error, a poll, a timeout), every status request comes after it,
\* and the run knows at most one request id: the one that submission returned.
C11_SubmittedOnce ==
    /\ Cardinality(SubmitCalls) <= 1
    /\ Cardinality(SubmittedEvents) <= 1
    /\ \A k \in StatusCalls : \E j \in SubmitCalls : j < k
    /\ \A k \in SubmitCalls : \A j \in StatusCalls : k < j
    /\ request_id # "" =>
          /\ Cardinality(SubmitCalls) = 1
          /\ \E e \in SubmittedEvents : events[e].message.request_id = request_id
    /\ request_id = "" => SubmittedEvents = {}

\* A run that submitted and then ended on an error or on the timeout.
C11_Witness ==
    /\ pc = "done"
    /\ SubmitCalls # {}
    /\ outcome \in {"error", "timeout"}

EventKinds == {"info", "success", "warning", "error", "complete"}

\* C12: every event yielded has a kind among info, success, warning, error
\* and complete, a message, and a progress value between 0 and 1.
C12_EveryEventWellFormed ==
    \A k \in 1..Len(events) :
        /\ events[k].status \in EventKinds
        /\ "message" \in DOMAIN events[k]
        /\ "progress" \in DOMAIN events[k]
        /\ events[k].progress \in 0..120

\* C13: a status answer that is a JSON object, not a list, ends the batch with
\* an error event; it is not passed over and polled again.
C13_ObjectAnswerIsSurfaced ==
    last_answer = "object" =>
        /\ pc = "done"
        /\ LastEvent.status = "error"

\* The last status answer was a list none of whose items is in progress, as
\* the design document enumerates the in-progress statuses.
NoItemInProgress ==
    \/ last_answer = "empty_list"
    \/ /\ last_answer = "final"
       /\ \A k \in 1..Len(status_result) :
             upper(status_result[k].status) \notin StatedInProgress

\* C17: the first status answer in which no item is in progress, whatever its
\* length, ends the poll: the tally is made from it and no status request
\* follows.
C17_FirstIdleAnswerCompletes ==
    NoItemInProgress =>
        /\ pc = "done"
        /\ outcome = "complete"
        /\ TallyEvents # {}
        /\ effects[Len(effects)].op = "status"

Sleeps == { k \in 1..Len(effects) : effects[k].op = "sleep" }

\* C18: a run makes at most 12 status requests, each right after one sleep of
\* the fixed length, each after the submission succeeded and with the request
\* id it returned; the run cannot go on for ever: its events and calls are
\* bounded, and it is never stuck before its end.
C18_BoundedPolling ==
    /\ Cardinality(StatusCalls) <= 12
    /\ Cardinality(Sleeps) = Cardinality(StatusCalls)
    /\ \A k \in StatusCalls :
         /\ k > 1
         /\ effects[k - 1] = [op |-> "sleep", seconds |-> 10]
         /\ \E j \in SubmitCalls : j < k
         /\ request_id # ""
         /\ effects[k].request_id = request_id
         /\ \E e \in SubmittedEvents :
               events[e].message.request_id = effects[k].request_id
    /\ Len(effects) <= 2 + 2 * 12
    /\ Len(events) <= 19 + Len(status_result)
    /\ pc = "done" \/ ENABLED Next

\* A run that used all twelve attempts.
C18_Witness ==
    pc = "done" /\ Cardinality(StatusCalls) = 12

\* C19: within a run, the progress values of the events never decrease.
C19_ProgressNeverDecreases ==
    \A j, k \in 1..Len(events) :
        (j < k /\ "progress" \in DOMAIN events[j] /\ "progress" \in DOMAIN events[k])
            => events[j].progress <= events[k].progress

\* C20: a run yields at most one 'complete' event; it is the run's last event
\* and follows the tally event directly; every tally event is followed by it;
\* a run that ended in an authentication failure, with no valid record, in an
\* error or in the timeout yielded none.
C20_CompleteOnceLastAfterTally ==
    /\ Cardinality(CompleteEvents) <= 1
    /\ \A k \in CompleteEvents :
         /\ k = Len(events)
         /\ (k - 1) \in TallyEvents
         /\ pc = "done"
    /\ \A t \in TallyEvents : (t + 1) \in CompleteEvents
    /\ outcome \in {"auth_failed", "no_records", "error", "timeout"} =>
          CompleteEvents = {}
    /\ outcome = "complete" => CompleteEvents # {}
    /\ pc = "done" => outcome # "running"

\* A run that ended with the tally, failures reported before it.
C20_Witness ==
    /\ outcome = "complete"
    /\ FailureEvents # {}
    /\ CompleteEvents # {}

\* C14: formatting a formatted phone number again gives the same text.
C14_FormatIsIdempotent ==
    [][pc = "formatted" => phone_out' = phone_out]_vars

DigitChars == { Digits[k] : k \in 1..Len(Digits) }

digits_of(s) == SelectSeq(s, LAMBDA c : c \in DigitChars)

\* The text is ten digits and nothing else, blanks around aside.
BareLocal(s) ==
    /\ Len(strip(s)) = 10
    /\ digits_of(strip(s)) = strip(s)

\* The text is 90 and ten digits, with or without a leading +, with blanks as
\* separators.
Prefixed(s) ==
    LET t == strip(s)
        u == IF startswith(t, <<"+">>) THEN Tail(t) ELSE t
    IN  /\ \A k \in 1..Len(u) : u[k] \in DigitChars \cup {" "}
        /\ Len(digits_of(u)) = 12
        /\ startswith(digits_of(u), <<"9", "0">>)

LocalDigits(s) ==
    LET d == digits_of(s) IN SubSeq(d, Len(d) - 9, Len(d))

\* C15: for a bare ten-digit number and for an already prefixed one, with or
\* without the + and with separators, the result is +90 and the ten digits,
\* nothing else.
C15_ResultIsPlus90AndDigits ==
    (pc = "formatted" /\ (BareLocal(phone_arg) \/ Prefixed(phone_arg))) =>
        phone_out = <<"+", "9", "0">> \o LocalDigits(phone_arg)

\* C16: on one instance a token is asked for only while none is cached, and
\* a cached token is never replaced or cleared.
C16_TokenFetchedOnlyWhenAbsent ==
    [][/\ TokenCalls' # TokenCalls => access_token = None
       /\ access_token # None => access_token' = access_token]_vars

===========================================================================
